---- MODULE Spec2Model ----
(***************************************************************************)
(* Model of src/server.js: the diagnosis server built on express, Jimp and *)
(* TensorFlow.js.                                                          *)
(*                                                                         *)
(* Three specifications share the module:                                  *)
(*   Spec        the server: start-up (loadModel, app.listen), the two     *)
(*               prediction handlers run as interleaved asynchronous       *)
(*               calls (one step per await), the readiness probes and the  *)
(*               SIGINT / SIGTERM handlers;                                *)
(*   SpecInterp  the interpretation of a raw score in makePrediction;      *)
(*   SpecNorm    the pixel loop and tensor construction of preprocessImage.*)
(*                                                                         *)
(* Numbers.  A raw score is an integer count of 1/ScoreScale; a confidence *)
(* is an integer count of hundredths of a percent (9000 is 90.00).  A      *)
(* normalised channel value is an integer count of 1/FixedOne.  Strings    *)
(* are the source's messages without their accents.  The timestamp field   *)
(* of a response is left out.                                              *)
(***************************************************************************)
EXTENDS Integers, Sequences, FiniteSets, TLC

\* Concurrent calls the server is observed with, and calls received in a run.
NumSlots == 2
MaxRequests == 2

\* Resolution of a raw score: 0.00001.
ScoreScale == 10 ^ 5
\* How far outside [0, 1] the raw scores of SpecInterp range, in 1/ScoreScale.
ScoreMargin == 2000

\* SpecNorm: the side of the resized bitmap (224 in the source, at lines 64 and 83,
\* scaled down so that the pixel loop can be enumerated) and the largest width
\* or height of a source image.
Side == 2
MaxSrcDim == 2

\* Resolution of a normalised channel value: 2^-20.
FixedOne == 2 ^ 20

Slots == 1..NumSlots

VARIABLES
    model,              \* let model (line 24): "undefined" or "GraphModel"
    isModelLoaded,      \* let isModelLoaded (line 25)
    startPc,            \* position of startServer: start, loading, loaded, listening
    loadAttempts,       \* calls of tf.loadGraphModel so far
    loadOutcome,        \* "none", "ok" or "failed": how the load ended
    exited,             \* "running", "exit0" or "exit1": the process and its exit code
    modelDisposeCount,  \* calls of model.dispose() so far
    liveTensors,        \* tensors allocated and not disposed, by kind
    calls,              \* per slot: the handler invocation in that slot
    served,             \* prediction requests received so far
    probe,              \* the last answer of GET /health or GET /model/status
    interp,             \* SpecInterp: one interpretation of a raw score
    norm                \* SpecNorm: one run of preprocessImage's body

serverVars == <<model, isModelLoaded, startPc, loadAttempts, loadOutcome, exited,
                modelDisposeCount, liveTensors, calls, served, probe>>
vars == <<model, isModelLoaded, startPc, loadAttempts, loadOutcome, exited,
          modelDisposeCount, liveTensors, calls, served, probe, interp, norm>>

---------------------------------------------------------------------------
(* Messages of the source.                                                 *)

ErrModelUnavailable == "Modelo no disponible"
ErrImageRequired == "Imagen requerida"
ErrFileRequired == "Archivo requerido"
ErrImageFormat == "Formato de imagen invalido"
ErrInternal == "Error interno del servidor"
MsgProcessImage == "Error al procesar la imagen"
MsgPrediction == "Error al realizar la prediccion"
MsgNotLoaded == "El modelo no esta cargado"
\* Errors thrown by the libraries: Jimp.read, model.predict, prediction.data.
JimpReadError == "Jimp.read: not an image"
TfPredictError == "model.predict threw"
TfDataError == "prediction.data rejected"
TypeErrorReplace == "image.replace is not a function"

---------------------------------------------------------------------------
(* Result interpretation, makePrediction lines 108-118.                    *)

IsMalignantGE(confidence) == 2 * confidence >= ScoreScale

\* const isMalignant = confidence > 0.5
IsMalignant(confidence) == 2 * confidence > ScoreScale

\* const finalConfidence = isMalignant ? confidence : 1 - confidence
FinalConfidence(confidence) ==
    IF IsMalignant(confidence) THEN confidence ELSE ScoreScale - confidence

\* Math.round(num / den) for den > 0: the integer nearest to it, a half going up.
MathRound(num, den) == (2 * num + den) \div (2 * den)

\* Math.round(finalConfidence * 100 * 100) / 100, kept in hundredths.
RoundedConfidence(finalConfidence) ==
    MathRound(finalConfidence * 100 * 100, ScoreScale)

Interpret(confidence) ==
    [diagnosis     |-> IF IsMalignant(confidence) THEN "Maligno" ELSE "Benigno",
     confidence    |-> RoundedConfidence(FinalConfidence(confidence)),
     rawPrediction |-> confidence]

---------------------------------------------------------------------------
(* The images a request can carry.  What Jimp and the loaded graph do with *)
(* an image is a function of the image: whether Jimp.read decodes it, and  *)
(* what the forward pass yields for it.                                    *)

ImageTable ==
    << [decodable |-> FALSE, predict |-> "none",        score |-> 0],
       [decodable |-> TRUE,  predict |-> "score",       score |-> (9 * ScoreScale) \div 10],
       [decodable |-> TRUE,  predict |-> "score",       score |-> ScoreScale \div 2],
       [decodable |-> TRUE,  predict |-> "throws",      score |-> 0],
       [decodable |-> TRUE,  predict |-> "dataRejects", score |-> 0] >>

ImageIds == DOMAIN ImageTable

Decodable(img) == ImageTable[img].decodable
PredictThrows(img) == ImageTable[img].predict = "throws"
DataRejects(img) == ImageTable[img].predict = "dataRejects"
ModelScore(img) == ImageTable[img].score

\* req.body.image of POST /predict: absent (undefined, null, ""), a truthy value
\* that is no string, or a base64 string of an image's bytes.  req.file of
\* POST /predict/upload: absent, or a file holding an image's bytes.
Bodies(route) ==
    {[kind |-> "absent", img |-> 0]}
    \cup (IF route = "/predict" THEN {[kind |-> "nonString", img |-> 0]} ELSE {})
    \cup {[kind |-> "bytes", img |-> i] : i \in ImageIds}

---------------------------------------------------------------------------
(* Responses.                                                              *)

NoResp == [status |-> 0, error |-> "", message |-> "", diagnosis |-> "", confidence |-> 0]

ErrorResp(st, err, msg) ==
    [status |-> st, error |-> err, message |-> msg, diagnosis |-> "", confidence |-> 0]

\* res.json({success: true, diagnosis, confidence, timestamp})
OkResp(result) ==
    [status |-> 200, error |-> "", message |-> "",
     diagnosis |-> result.diagnosis, confidence |-> result.confidence]

Resp503 == ErrorResp(503, ErrModelUnavailable, "")
RespMissing(route) ==
    ErrorResp(400, IF route = "/predict" THEN ErrImageRequired ELSE ErrFileRequired, "")
RespFormat == ErrorResp(400, ErrImageFormat, "")
\* the handler's catch: res.status(500).json({error, message: error.message})
Resp500(msg) == ErrorResp(500, ErrInternal, msg)

IdleCall ==
    [pc |-> "idle", route |-> "", body |-> [kind |-> "absent", img |-> 0],
     imageTensor |-> "none", prediction |-> "none",
     preprocessCalls |-> 0, predictCalls |-> 0,
     failedStage |-> "none", raised |-> "", resp |-> NoResp]

NoTensors == [rank3 |-> 0, batched |-> 0, prediction |-> 0]
NoProbe == [answered |-> FALSE, loaded |-> FALSE]
IdleInterp == [pc |-> "idle", score |-> 0, result |-> Interpret(0)]
IdleNorm ==
    [pc |-> "idle", srcWidth |-> 0, srcHeight |-> 0,
     bitmap |-> [width |-> 0, height |-> 0, data |-> <<>>],
     rgbData |-> <<>>, i |-> 0, rgbIndex |-> 0,
     tensor |-> [shape |-> <<>>, values |-> <<>>]]

Running == exited = "running"
Listening == startPc = "listening"

---------------------------------------------------------------------------
(* Start-up: startServer (lines 257-276) and loadModel (lines 29-55).      *)

Init ==
    /\ model = "undefined"
    /\ isModelLoaded = FALSE
    /\ startPc = "start"
    /\ loadAttempts = 0
    /\ loadOutcome = "none"
    /\ exited = "running"
    /\ modelDisposeCount = 0
    /\ liveTensors = NoTensors
    /\ calls = [s \in Slots |-> IdleCall]
    /\ served = 0
    /\ probe = NoProbe
    /\ interp = IdleInterp
    /\ norm = IdleNorm

\* startServer() at line 296 runs loadModel up to its await of tf.loadGraphModel.
StartServer ==
    /\ Running
    /\ startPc = "start"
    /\ startPc' = "loading"
    /\ loadAttempts' = loadAttempts + 1
    /\ UNCHANGED <<model, isModelLoaded, loadOutcome, exited, modelDisposeCount,
                   liveTensors, calls, served, probe, interp, norm>>

\* tf.loadGraphModel resolves: lines 35-49.
LoadModelOk ==
    /\ Running
    /\ startPc = "loading"
    /\ model' = "GraphModel"
    /\ isModelLoaded' = TRUE
    /\ loadOutcome' = "ok"
    /\ startPc' = "loaded"
    /\ UNCHANGED <<loadAttempts, exited, modelDisposeCount, liveTensors, calls,
                   served, probe, interp, norm>>

LoadModelFailedRethrow ==
    /\ Running
    /\ startPc = "loading"
    /\ isModelLoaded' = FALSE
    /\ loadOutcome' = "failed"
    /\ exited' = "exit1"
    /\ UNCHANGED <<model, startPc, loadAttempts, modelDisposeCount, liveTensors,
                   calls, served, probe, interp, norm>>

\* tf.loadGraphModel rejects: the catch of lines 51-54; loadModel returns normally.
LoadModelFailed ==
    /\ Running
    /\ startPc = "loading"
    /\ isModelLoaded' = FALSE
    /\ loadOutcome' = "failed"
    /\ startPc' = "loaded"
    /\ UNCHANGED <<model, loadAttempts, exited, modelDisposeCount, liveTensors,
                   calls, served, probe, interp, norm>>

\* app.listen(PORT, ...) at line 263, once await loadModel() has returned.
StartServerListen ==
    /\ Running
    /\ startPc = "loaded"
    /\ startPc' = "listening"
    /\ UNCHANGED <<model, isModelLoaded, loadAttempts, loadOutcome, exited,
                   modelDisposeCount, liveTensors, calls, served, probe, interp, norm>>

---------------------------------------------------------------------------
(* The prediction handlers, one action per stretch of code between awaits. *)

ModelAvailableAlways == TRUE

\* if (!isModelLoaded) return res.status(503)...  (lines 147 and 202)
ModelAvailable == isModelLoaded

Respond(c, r) == [c EXCEPT !.pc = "done", !.resp = r]

\* The synchronous head of a handler, up to await Jimp.read inside preprocessImage.
HandlerHead(s, route, body) ==
    /\ Running
    /\ Listening
    /\ calls[s].pc = "idle"
    /\ served < MaxRequests
    /\ served' = served + 1
    /\ LET c == [IdleCall EXCEPT !.route = route, !.body = body] IN
       calls' = [calls EXCEPT ![s] =
           IF ~ModelAvailable THEN Respond(c, Resp503)
           ELSE IF body.kind = "absent" THEN Respond(c, RespMissing(route))
           ELSE IF body.kind = "nonString"
                THEN Respond([c EXCEPT !.raised = TypeErrorReplace], RespFormat)
           ELSE [c EXCEPT !.pc = "jimp", !.preprocessCalls = 1]]
    /\ UNCHANGED <<model, isModelLoaded, startPc, loadAttempts, loadOutcome, exited,
                   modelDisposeCount, liveTensors, probe, interp, norm>>

\* app.post('/predict', ...) lines 145-177
Predict(s, body) == HandlerHead(s, "/predict", body)

\* app.post('/predict/upload', ...) lines 200-217
PredictUpload(s, body) == HandlerHead(s, "/predict/upload", body)

PreprocessSwallowsError(s, cause) ==
    /\ calls' = [calls EXCEPT ![s] = [@ EXCEPT !.pc = "normalized", !.raised = cause]]
    /\ UNCHANGED liveTensors

\* preprocessImage's catch (lines 87-90) throws a new Error; the handler's catch
\* (lines 190-196, 230-236) answers 500 with that error's message.
PreprocessFailed(s, cause) ==
    /\ calls' = [calls EXCEPT ![s] =
           Respond([@ EXCEPT !.failedStage = "normalize", !.raised = cause],
                   Resp500(MsgProcessImage))]
    /\ UNCHANGED liveTensors

\* Jimp.read settles; on success the rest of preprocessImage runs (lines 64-86):
\* tf.tensor3d allocates the rank-3 tensor and expandDims a second, batched one.
JimpReadDone(s) ==
    /\ Running
    /\ calls[s].pc = "jimp"
    /\ IF ~Decodable(calls[s].body.img)
       THEN PreprocessFailed(s, JimpReadError)
       ELSE /\ liveTensors' = [liveTensors EXCEPT !.rank3 = @ + 1, !.batched = @ + 1]
            /\ calls' = [calls EXCEPT ![s] =
                   [@ EXCEPT !.pc = "normalized", !.imageTensor = "live"]]
    /\ UNCHANGED <<model, isModelLoaded, startPc, loadAttempts, loadOutcome, exited,
                   modelDisposeCount, served, probe, interp, norm>>

PredictionFailedRethrow(s, cause) ==
    /\ calls' = [calls EXCEPT ![s] =
           Respond([@ EXCEPT !.predictCalls = 1, !.failedStage = "infer",
                             !.raised = cause],
                   Resp500(cause))]
    /\ UNCHANGED <<model, isModelLoaded, liveTensors>>

PredictionFailedMarksUnloaded(s, cause) ==
    /\ calls' = [calls EXCEPT ![s] =
           Respond([@ EXCEPT !.predictCalls = 1, !.failedStage = "infer",
                             !.raised = cause],
                   Resp500(MsgPrediction))]
    /\ isModelLoaded' = FALSE
    /\ UNCHANGED <<model, liveTensors>>

\* makePrediction's catch (lines 120-123) throws a new Error; nothing is disposed
\* on this path.  The handler's catch answers 500 with that error's message.
PredictionFailed(s, cause) ==
    /\ calls' = [calls EXCEPT ![s] =
           Respond([@ EXCEPT !.predictCalls = 1, !.failedStage = "infer",
                             !.raised = cause],
                   Resp500(MsgPrediction))]
    /\ UNCHANGED <<model, isModelLoaded, liveTensors>>

\* The handler resumes with the tensor and calls makePrediction, which runs up to
\* its await of model.predict(imageTensor) (lines 96-101).
CallMakePrediction(s) ==
    /\ Running
    /\ calls[s].pc = "normalized"
    /\ IF ~isModelLoaded
       THEN PredictionFailed(s, MsgNotLoaded)
       ELSE IF calls[s].imageTensor # "live" \/ PredictThrows(calls[s].body.img)
       THEN PredictionFailed(s, TfPredictError)
       ELSE /\ liveTensors' = [liveTensors EXCEPT !.prediction = @ + 1]
            /\ calls' = [calls EXCEPT ![s] =
                   [@ EXCEPT !.pc = "predict", !.predictCalls = 1,
                             !.prediction = "live"]]
            /\ UNCHANGED <<model, isModelLoaded>>
    /\ UNCHANGED <<startPc, loadAttempts, loadOutcome, exited, modelDisposeCount,
                   served, probe, interp, norm>>

\* await model.predict(...) resumes; prediction.data() is called and awaited (line 102).
PredictAwaited(s) ==
    /\ Running
    /\ calls[s].pc = "predict"
    /\ calls' = [calls EXCEPT ![s].pc = "data"]
    /\ UNCHANGED <<model, isModelLoaded, startPc, loadAttempts, loadOutcome, exited,
                   modelDisposeCount, liveTensors, served, probe, interp, norm>>

\* prediction.data() settles; lines 105-118 dispose the two tensors and interpret
\* the score, and the handler answers 200 (lines 183-188, 223-228).
DataResolved(s) ==
    /\ Running
    /\ calls[s].pc = "data"
    /\ IF DataRejects(calls[s].body.img)
       THEN PredictionFailed(s, TfDataError)
       ELSE /\ liveTensors' = [liveTensors EXCEPT !.batched = @ - 1, !.prediction = @ - 1]
            /\ calls' = [calls EXCEPT ![s] =
                   Respond([@ EXCEPT !.imageTensor = "disposed", !.prediction = "disposed"],
                           OkResp(Interpret(ModelScore(calls[s].body.img))))]
            /\ UNCHANGED <<model, isModelLoaded>>
    /\ UNCHANGED <<startPc, loadAttempts, loadOutcome, exited, modelDisposeCount,
                   served, probe, interp, norm>>

\* The response has been sent; the slot can take the next request.
Deliver(s) ==
    /\ Running
    /\ calls[s].pc = "done"
    /\ calls' = [calls EXCEPT ![s] = IdleCall]
    /\ UNCHANGED <<model, isModelLoaded, startPc, loadAttempts, loadOutcome, exited,
                   modelDisposeCount, liveTensors, served, probe, interp, norm>>

---------------------------------------------------------------------------
(* Readiness probes (lines 127-142).  probe keeps the readiness the last   *)
(* probe reported: modelLoaded of GET /health, loaded of GET /model/status.*)

Health ==
    /\ Running
    /\ Listening
    /\ probe' = [answered |-> TRUE, loaded |-> isModelLoaded]
    /\ UNCHANGED <<model, isModelLoaded, startPc, loadAttempts, loadOutcome, exited,
                   modelDisposeCount, liveTensors, calls, served, interp, norm>>

ModelStatus ==
    /\ Running
    /\ Listening
    /\ probe' = [answered |-> TRUE, loaded |-> isModelLoaded]
    /\ UNCHANGED <<model, isModelLoaded, startPc, loadAttempts, loadOutcome, exited,
                   modelDisposeCount, liveTensors, calls, served, interp, norm>>

---------------------------------------------------------------------------
(* Shutdown (lines 278-293).  process.exit ends the process inside the     *)
(* handler: nothing of the program runs after it.  An exception escaping a *)
(* signal handler is uncaught and ends the process with exit code 1.       *)

ShutdownUnguarded ==
    /\ Running
    /\ IF model # "undefined"
       THEN modelDisposeCount' = modelDisposeCount + 1 /\ exited' = "exit0"
       ELSE modelDisposeCount' = modelDisposeCount /\ exited' = "exit1"
    /\ UNCHANGED <<model, isModelLoaded, startPc, loadAttempts, loadOutcome,
                   liveTensors, calls, served, probe, interp, norm>>

\* if (model) { model.dispose(); }  process.exit(0);
Shutdown ==
    /\ Running
    /\ modelDisposeCount' =
           IF model # "undefined" THEN modelDisposeCount + 1 ELSE modelDisposeCount
    /\ exited' = "exit0"
    /\ UNCHANGED <<model, isModelLoaded, startPc, loadAttempts, loadOutcome,
                   liveTensors, calls, served, probe, interp, norm>>

\* process.on('SIGINT', ...) lines 279-285
SigInt == Shutdown

\* process.on('SIGTERM', ...) lines 287-293
SigTerm == Shutdown

---------------------------------------------------------------------------

Next ==
    \/ StartServer
    \/ LoadModelOk
    \/ LoadModelFailed
    \/ StartServerListen
    \/ \E s \in Slots : \E body \in Bodies("/predict") : Predict(s, body)
    \/ \E s \in Slots : \E body \in Bodies("/predict/upload") : PredictUpload(s, body)
    \/ \E s \in Slots : JimpReadDone(s)
    \/ \E s \in Slots : CallMakePrediction(s)
    \/ \E s \in Slots : PredictAwaited(s)
    \/ \E s \in Slots : DataResolved(s)
    \/ \E s \in Slots : Deliver(s)
    \/ Health
    \/ ModelStatus
    \/ SigInt
    \/ SigTerm

Spec == Init /\ [][Next]_vars

---------------------------------------------------------------------------
(* A handler run on its own, start to finish, as a function of the request *)
(* and of the ready flag: lines 145-197 and 200-237 read top to bottom.    *)

RunAlone(route, body, ready) ==
    IF ~ready THEN Resp503
    ELSE IF body.kind = "absent" THEN RespMissing(route)
    ELSE IF body.kind = "nonString" THEN RespFormat
    ELSE IF ~Decodable(body.img) THEN Resp500(MsgProcessImage)
    ELSE IF PredictThrows(body.img) \/ DataRejects(body.img) THEN Resp500(MsgPrediction)
    ELSE OkResp(Interpret(ModelScore(body.img)))

InFlight(c) == c.pc \in {"jimp", "normalized", "predict", "data"}

---------------------------------------------------------------------------
(* Properties of the server, checked under Spec.                           *)

\* C1: while the ready flag is false, every prediction call has been answered
\* 503 "Modelo no disponible" and has invoked neither preprocessImage nor
\* makePrediction, whatever its body holds; no tensor has been allocated.
C1_NotReadyFailsFast ==
    ~isModelLoaded =>
        /\ liveTensors = NoTensors
        /\ \A s \in Slots :
               calls[s].pc # "idle" =>
                   /\ calls[s].pc = "done"
                   /\ calls[s].resp = Resp503
                   /\ calls[s].preprocessCalls = 0
                   /\ calls[s].predictCalls = 0

C1_Witness ==
    /\ ~isModelLoaded
    /\ \E s \in Slots :
           /\ calls[s].pc = "done"
           /\ calls[s].body.kind = "bytes"
           /\ Decodable(calls[s].body.img)
           /\ calls[s].resp.status = 503

\* C2: with the model loaded, a call whose bytes Jimp cannot decode ends with the
\* normalizer's error (500, "Error al procesar la imagen", raised by Jimp.read)
\* and never invokes makePrediction.
C2_DecodeErrorSkipsInference ==
    \A s \in Slots :
        (isModelLoaded /\ calls[s].body.kind = "bytes" /\ ~Decodable(calls[s].body.img)) =>
            /\ calls[s].predictCalls = 0
            /\ calls[s].prediction = "none"
            /\ calls[s].pc \in {"jimp", "done"}
            /\ calls[s].pc = "done" =>
                   /\ calls[s].resp = Resp500(MsgProcessImage)
                   /\ calls[s].failedStage = "normalize"
                   /\ calls[s].raised = JimpReadError

C2_Witness ==
    /\ isModelLoaded
    /\ \E s \in Slots :
           /\ calls[s].pc = "done"
           /\ calls[s].body.kind = "bytes"
           /\ ~Decodable(calls[s].body.img)
           /\ calls[s].preprocessCalls = 1

\* C4 (as claimed): whenever no call is in progress, no transient tensor (rank-3
\* image tensor, batched input tensor, prediction tensor) is live.
C4_NoTensorLeak ==
    (\A s \in Slots : ~InFlight(calls[s])) => liveTensors = NoTensors

\* C5: once the model load has failed, the process has not crashed, the ready
\* flag is false in every later state, the load was attempted exactly once,
\* nothing keeps the server from listening, and every probe answers false.
C5_LoadFailureDegrades ==
    /\ loadAttempts <= 1
    /\ loadOutcome = "failed" =>
           /\ ~isModelLoaded
           /\ loadAttempts = 1
           /\ exited # "exit1"
           /\ startPc \in {"loaded", "listening"}
           /\ (Running /\ startPc = "loaded") => ENABLED StartServerListen
           /\ probe.answered => ~probe.loaded

C5_Witness ==
    /\ loadOutcome = "failed"
    /\ Listening
    /\ probe.answered
    /\ \E s \in Slots : calls[s].pc = "done"

C7_StatusCodes ==
    \A s \in Slots :
        calls[s].pc = "done" =>
            /\ (isModelLoaded /\ (calls[s].body.kind \in {"absent", "nonString"}
                                  \/ ~Decodable(calls[s].body.img)))
                   => calls[s].resp.status = 400
            /\ calls[s].resp.status = 500 => calls[s].failedStage = "infer"
            /\ calls[s].resp.status = 503 => ~isModelLoaded
            /\ calls[s].resp.status = 200 =>
                   calls[s].resp.diagnosis \in {"Benigno", "Maligno"}

\* C8: over any sequence of shutdown signals model.dispose() is called at most
\* once, never on an absent model, and no handler ends in an uncaught error.
C8_ShutdownIdempotent ==
    /\ modelDisposeCount <= 1
    /\ model = "undefined" => modelDisposeCount = 0
    /\ exited # "exit1"

C8_Witness ==
    /\ exited = "exit0"
    /\ modelDisposeCount = 1
    /\ \E s \in Slots : InFlight(calls[s])

C8_WitnessNeverLoaded ==
    /\ exited = "exit0"
    /\ loadOutcome = "failed"
    /\ modelDisposeCount = 0

SharedStateWrittenOnlyByLoad ==
    (model' # model \/ isModelLoaded' # isModelLoaded) =>
        (startPc = "loading" /\ startPc' = "loaded")

\* C9: under every interleaving, a finished call's response is the one the same
\* request yields when run alone, and the shared state (model, isModelLoaded) is
\* written by the load alone, never by a call.
C9_CallsIndependent ==
    /\ [](\A s \in Slots :
             calls[s].pc = "done" =>
                 calls[s].resp = RunAlone(calls[s].route, calls[s].body, isModelLoaded))
    /\ [][SharedStateWrittenOnlyByLoad]_vars

C9_Witness ==
    \E s \in Slots : \E t \in Slots :
        /\ s # t
        /\ calls[s].pc = "done"
        /\ calls[s].resp.status = 200
        /\ calls[s].predictCalls = 1
        /\ InFlight(calls[t])
        /\ calls[t].body.img # calls[s].body.img

---------------------------------------------------------------------------
(* SpecInterp: makePrediction's interpretation (lines 108-118) applied to  *)
(* every raw score from -ScoreMargin to ScoreScale + ScoreMargin.          *)

Abs(x) == IF x < 0 THEN -x ELSE x

ServerIdle ==
    /\ model = "undefined"
    /\ isModelLoaded = FALSE
    /\ startPc = "start"
    /\ loadAttempts = 0
    /\ loadOutcome = "none"
    /\ exited = "running"
    /\ modelDisposeCount = 0
    /\ liveTensors = NoTensors
    /\ calls = [s \in Slots |-> IdleCall]
    /\ served = 0
    /\ probe = NoProbe

InitInterp ==
    /\ ServerIdle
    /\ norm = IdleNorm
    /\ \E n \in (0 - ScoreMargin)..(ScoreScale + ScoreMargin) :
           interp = [IdleInterp EXCEPT !.pc = "call", !.score = n]

\* const confidence = predictionData[0]; ... return {diagnosis, confidence, rawPrediction}
InterpretScore ==
    /\ interp.pc = "call"
    /\ interp' = [interp EXCEPT !.pc = "done", !.result = Interpret(interp.score)]
    /\ UNCHANGED <<serverVars, norm>>

NextInterp == InterpretScore

SpecInterp == InitInterp /\ [][NextInterp]_vars

\* C3: for every raw score s the diagnosis is Maligno exactly when s > 0.5; the
\* confidence is s*100 for Maligno and (1-s)*100 for Benigno, rounded to the
\* nearest hundredth; 0.5 gives Benigno 50.00, 0.9 Maligno 90.00, 0.1 Benigno 90.00.
C3_DecisionRule ==
    interp.pc = "done" =>
        LET s == interp.score
            r == interp.result
            exact == (IF 2 * s > ScoreScale THEN s ELSE ScoreScale - s) * 10000
        IN  /\ r.rawPrediction = s
            /\ r.diagnosis = "Maligno" <=> 2 * s > ScoreScale
            /\ r.diagnosis = "Benigno" <=> 2 * s <= ScoreScale
            /\ 2 * Abs(r.confidence * ScoreScale - exact) <= ScoreScale
            /\ 2 * s = ScoreScale => (r.diagnosis = "Benigno" /\ r.confidence = 5000)
            /\ 10 * s = 9 * ScoreScale => (r.diagnosis = "Maligno" /\ r.confidence = 9000)
            /\ 10 * s = ScoreScale => (r.diagnosis = "Benigno" /\ r.confidence = 9000)

C3_Witness ==
    /\ interp.pc = "done"
    /\ 2 * interp.score = ScoreScale
    /\ interp.result.diagnosis = "Benigno"
    /\ interp.result.confidence = 5000

---------------------------------------------------------------------------
(* SpecNorm: the body of preprocessImage (lines 61-86) on a decodable      *)
(* image.  Jimp's decoding and resampling are the library's: the resized   *)
(* bitmap holds Side x Side RGBA pixels of any content, here drawn from    *)
(* Palette, whatever the width and height of the source image.             *)

Palette == { <<255, 0, 128, 64>>, <<1, 254, 77, 255>> }

\* bitmap.data of a Side x Side image whose pixel k (row-major) is px[k].
BitmapData(px) ==
    [k \in 1..(Side * Side * 4) |-> px[((k - 1) \div 4) + 1][((k - 1) % 4) + 1]]

ToUnitBy256(byte) == (byte * FixedOne) \div 256

\* data[i] / 255.0, to the nearest 1/FixedOne
ToUnit(byte) == (2 * byte * FixedOne + 255) \div (2 * 255)

\* rgbData[index] = value on a Float32Array: a write past the end is ignored.
\* index counts from 0 as in the source.
StoreF32(array, index, value) ==
    IF index < Len(array) THEN [array EXCEPT ![index + 1] = value] ELSE array

InitNorm ==
    /\ ServerIdle
    /\ interp = IdleInterp
    /\ \E w \in 1..MaxSrcDim : \E h \in 1..MaxSrcDim :
           norm = [IdleNorm EXCEPT !.pc = "read", !.srcWidth = w, !.srcHeight = h]

\* await Jimp.read(imageBuffer); image.resize(224, 224); lines 67-73.
ReadAndResize ==
    /\ norm.pc = "read"
    /\ \E px \in [1..(Side * Side) -> Palette] :
           LET bitmap == [width |-> Side, height |-> Side, data |-> BitmapData(px)] IN
           norm' = [norm EXCEPT
                       !.pc = "loop",
                       !.bitmap = bitmap,
                       !.rgbData = [k \in 1..(bitmap.width * bitmap.height * 3) |-> 0],
                       !.i = 0,
                       !.rgbIndex = 0]
    /\ UNCHANGED <<serverVars, interp>>

\* One iteration of for (let i = 0; i < data.length; i += 4), lines 75-80.
PixelLoopStep ==
    /\ norm.pc = "loop"
    /\ norm.i < Len(norm.bitmap.data)
    /\ LET data == norm.bitmap.data
           i == norm.i
           k == norm.rgbIndex
           r1 == StoreF32(norm.rgbData, k, ToUnit(data[i + 1]))
           r2 == StoreF32(r1, k + 1, ToUnit(data[i + 2]))
           r3 == StoreF32(r2, k + 2, ToUnit(data[i + 3]))
       IN  norm' = [norm EXCEPT !.rgbData = r3, !.i = i + 4, !.rgbIndex = k + 3]
    /\ UNCHANGED <<serverVars, interp>>

\* The loop ends; tf.tensor3d(rgbData, [224, 224, 3]) throws unless rgbData holds
\* as many values as the shape, and expandDims(0) adds the batch axis (lines 83-86).
MakeTensor ==
    /\ norm.pc = "loop"
    /\ norm.i >= Len(norm.bitmap.data)
    /\ IF Len(norm.rgbData) = Side * Side * 3
       THEN norm' = [norm EXCEPT
                        !.pc = "done",
                        !.tensor = [shape |-> <<1, Side, Side, 3>>,
                                    values |-> norm.rgbData]]
       ELSE norm' = [norm EXCEPT !.pc = "error"]
    /\ UNCHANGED <<serverVars, interp>>

NextNorm ==
    \/ ReadAndResize
    \/ PixelLoopStep
    \/ MakeTensor

SpecNorm == InitNorm /\ [][NextNorm]_vars

\* C10: for every decodable image, whatever its source size, preprocessImage
\* returns a tensor of shape (1, Side, Side, 3) with Side*Side*3 values; the value
\* at (row y, column x, channel c) is byte c of pixel (y, x) divided by 255,
\* within [0, 1], in row-major R, G, B order, the alpha byte dropped.
C10_NormalizedTensor ==
    /\ norm.pc # "error"
    /\ norm.pc = "done" =>
           /\ norm.tensor.shape = <<1, Side, Side, 3>>
           /\ Len(norm.tensor.values) = Side * Side * 3
           /\ \A y \in 0..(Side - 1) : \A x \in 0..(Side - 1) : \A c \in 0..2 :
                  LET v == norm.tensor.values[(y * Side + x) * 3 + c + 1]
                      b == norm.bitmap.data[(y * norm.bitmap.width + x) * 4 + c + 1]
                  IN  /\ 0 <= v
                      /\ v <= FixedOne
                      /\ 2 * Abs(v * 255 - b * FixedOne) <= 255

C10_Witness ==
    /\ norm.pc = "done"
    /\ norm.srcWidth # norm.srcHeight
    /\ \E k \in DOMAIN norm.bitmap.data : norm.bitmap.data[k] = 255
    /\ \E k \in DOMAIN norm.tensor.values : norm.tensor.values[k] = FixedOne
    /\ \E k \in DOMAIN norm.tensor.values : norm.tensor.values[k] = 0

====
